---- MODULE Spec2Model ----
(***************************************************************************)
(* Model of install.py: the installer of the /dbapps and /dbtestrunner     *)
(* command files.  One run of the script is main(): argument parsing, the  *)
(* optional update_from_repo (two git subprocesses), install_files (mkdir, *)
(* the copy loop, the summary) and the top-level exception handler.  The   *)
(* file system (source directory, destination directory) outlives a run,   *)
(* so the script can be run again on what an earlier run left behind.      *)
(***************************************************************************)
EXTENDS Integers, Sequences, FiniteSets, TLC

\* ------------------------------------------------------------- bounds
\* how many times the script is run in a row
MaxRuns == 2

\* ------------------------------------------------------------- file system
\* install.py:89-93
files_to_copy == <<"dbapps.md", "dbtestrunner.md", "deploy_to_databricks_template.py">>

Manifest == {files_to_copy[k] : k \in 1..Len(files_to_copy)}

\* a file that is in neither list: the tool must never touch it
OtherFile == "README.md"

Names == Manifest \cup {OtherFile}

\* install.py:79
commands_dst == "~/.claude/commands"

NoFile == [content |-> "-", meta |-> "-"]
FileV1 == [content |-> "v1", meta |-> "m1"]
FileV2 == [content |-> "v2", meta |-> "m2"]
\* the content of FileV1 under another modification time / permission
FileStale == [content |-> "v1", meta |-> "m0"]

SrcVals == {NoFile, FileV1}
\* what a pull can turn a command file into: removed, or a newer version
PulledVals == {NoFile, FileV2}
DstVals == {NoFile, FileV1, FileStale}

\* a directory that does not exist
NoDir == [n \in Names |-> [content |-> "nodir", meta |-> "nodir"]]
EmptyDir == [n \in Names |-> NoFile]

\* Path.exists() of a file of directory d
exists(d, f) == d # NoDir /\ d[f] # NoFile

\* the files of a directory
Files(d) == IF d = NoDir THEN {} ELSE {n \in Names : d[n] # NoFile}

\* Path.mkdir(parents=True, exist_ok=True): an absent directory is created
\* empty, an existing one is left as it is
mkdir(d) == IF d = NoDir THEN EmptyDir ELSE d

\* mutant: the whole source directory is copied, not the one file
copytree(s, d, f) == [n \in Names |-> IF s[n] # NoFile THEN s[n] ELSE d[n]]

\* mutant: shutil.copy, the content without the metadata
copy_content(s, d, f) == [d EXCEPT ![f] = [content |-> s[f].content, meta |-> "now"]]

\* shutil.copy2(src_file, dst_file): content and metadata of the source
\* file replace whatever the destination held under that name
copy2(s, d, f) == [d EXCEPT ![f] = s[f]]

\* ------------------------------------------------------------- text
\* str(n) of the f-string, for the counts the script can print
str(n) == <<"0", "1", "2", "3", "4">>[n + 1]

\* captured stdout / stderr of git pull, as pieces of text: nothing, the
\* marker alone, the marker after other text, the wording of older gits
Texts == { << >>, <<"Already up to date">>, <<"From origin", "Already up to date">>,
           <<"Already up-to-date">> }

\* "marker in text": the marker occurs in the text
Contains(marker, text) == \E k \in 1..Len(text) : text[k] = marker

\* a subprocess.CompletedProcess; NoResult: no result is held
NoResult == [returncode |-> -1, stdout |-> <<>>, stderr |-> <<>>]
ReturnCodes == {0, 1}

\* what launching the subprocess can raise instead of returning
LaunchErrors == {"FileNotFoundError", "PermissionError"}

VARIABLES src, dst, parentWritable, run, pc, update, out, idx, success_count,
          exc, excFrom, exitcode, result, calls, updRet, dst0, prev

vars == <<src, dst, parentWritable, run, pc, update, out, idx, success_count,
          exc, excFrom, exitcode, result, calls, updRet, dst0, prev>>

NoPrev == [done |-> FALSE, src |-> NoDir, dst |-> NoDir, count |-> 0]

Init ==
    /\ src \in {s \in [Names -> SrcVals] : s[OtherFile] = FileV1}
    /\ dst \in {NoDir} \cup {d \in [Names -> DstVals] : d[OtherFile] # FileV1}
    /\ parentWritable \in (IF dst = NoDir THEN BOOLEAN ELSE {TRUE})
    /\ run = 0
    /\ pc = "idle"
    /\ update = FALSE
    /\ out = <<>>
    /\ idx = 0
    /\ success_count = 0
    /\ exc = "none"
    /\ excFrom = "none"
    /\ exitcode = -1
    /\ result = NoResult
    /\ calls = <<>>
    /\ updRet = "none"
    /\ dst0 = dst
    /\ prev = NoPrev

\* ------------------------------------------------------------- output
\* one printed line is a sequence of pieces of text; Blank is print().  The
\* ANSI colour codes print_colored puts around a line are left out: they
\* never change the text between them.
Blank == <<>>
Rule50 == <<"=" , "*50">>
Rule45 == <<"=" , "*45">>
CloneURL == "git clone https://github.com/honnuanand/claude-dbapps-command.git"

\* main, lines 156-162
Header(u) ==
    << Rule50,
       IF u THEN <<"Updating and Installing Databricks App commands">>
            ELSE <<"Installing Databricks App commands for Claude Code">>,
       Rule50, Blank >>

\* update_from_repo, lines 30-31
UpdateHeader == << <<"Updating from GitHub repository...">>, Blank >>

\* update_from_repo, lines 44-47
NotARepoLines ==
    << <<"Warning: Not a git repository. Skipping update.">>,
       <<"To enable updates, clone from GitHub:">>,
       <<CloneURL>>, Blank >>

\* update_from_repo, lines 71-73
GitMissingLines ==
    << <<"Warning: git command not found">>,
       <<"Install git to enable automatic updates">>, Blank >>

UpdatedLine == <<"Successfully updated from GitHub">>
UpToDateLine == <<"Repository is already up to date">>
FailedLine(text) == <<"Failed to update:">> \o text

\* mutant: the marker is looked for in stdout and stderr together
PullLines_combined(r) ==
    IF r.returncode = 0
    THEN << UpdatedLine >>
         \o (IF Contains("Already up to date", r.stdout \o r.stderr)
             THEN << UpToDateLine >> ELSE << >>)
         \o << Blank >>
    ELSE << FailedLine(r.stderr) >>

\* update_from_repo, lines 60-68: what is printed for the result of git pull
PullLines(r) ==
    IF r.returncode = 0
    THEN << UpdatedLine >>
         \o (IF Contains("Already up to date", r.stdout) THEN << UpToDateLine >> ELSE << >>)
         \o << Blank >>
    ELSE << FailedLine(r.stderr) >>

\* update_from_repo, lines 65 and 68: what is returned for the result of git pull
PullReturn(r) == IF r.returncode = 0 THEN "True" ELSE "False"

InstalledLine(f) == <<"Installed", f>>
NotFoundLine(f) == <<"Warning:", f, "not found">>
PathLine(f) == <<commands_dst, "/", f>>
CountLine(n) == <<"Successfully installed", str(n), "file(s)">>
ErrorLine(e) == <<"Error:", e>>

\* install_files, lines 131-134: the destination path of every manifest entry
PathLines == [k \in 1..Len(files_to_copy) |-> PathLine(files_to_copy[k])]

\* mutant: only as many paths are listed as files were installed
SummaryLines_installed(n) ==
    << Blank, Rule45, <<"Installation complete!">>, Rule45, Blank,
       <<"Files installed to:">> >>
    \o SubSeq(PathLines, 1, n)
    \o << Blank, CountLine(n) >>

\* install_files, lines 107-136
SummaryLines(n) ==
    << Blank, Rule45, <<"Installation complete!">>, Rule45, Blank,
       <<"The following commands are now available in Claude Code!">>, Blank,
       <<"Commands:">>,
       <<"/dbapps", "- Create a React + FastAPI app with Databricks deployment">>,
       <<"/dbtestrunner", "- Add an in-app Test Runner framework to a Databricks App">>,
       Blank,
       <<"Usage:">>,
       <<"1. Open Claude Code in any directory">>,
       <<"2. Type: /dbapps", "to create a new Databricks App">>,
       <<"3. Type: /dbtestrunner", "to add an in-app test runner">>,
       Blank,
       <<"Files installed to:">> >>
    \o PathLines
    \o << Blank, CountLine(n) >>

Call(cmd, rc, raised) == [cmd |-> cmd, returncode |-> rc, raised |-> raised]

\* ------------------------------------------------------------- one run
\* the script is started: main() up to the choice of the update step
Main(u) ==
    /\ pc \in {"idle", "done", "failed"}
    /\ run < MaxRuns
    /\ run' = run + 1
    /\ update' = u
    /\ out' = Header(u)
    /\ pc' = IF u THEN "update" ELSE "install"
    /\ prev' = IF pc = "done"
               THEN [done |-> TRUE, src |-> src, dst |-> dst, count |-> success_count]
               ELSE NoPrev
    /\ dst0' = dst
    /\ idx' = 0 /\ success_count' = 0
    /\ exc' = "none" /\ excFrom' = "none" /\ exitcode' = -1
    /\ result' = NoResult /\ calls' = <<>> /\ updRet' = "none"
    /\ UNCHANGED <<src, dst, parentWritable>>

\* an exception leaves the function it was raised in
Raise(e, from, lines) ==
    /\ exc' = e
    /\ excFrom' = from
    /\ out' = out \o lines
    /\ pc' = "raised"

\* mutant: the warning is printed but the function does not return
SkipUpdate_fallthrough ==
    /\ out' = out \o UpdateHeader \o NotARepoLines
    /\ updRet' = updRet
    /\ pc' = "pull"

\* update_from_repo, lines 43-48: not a checkout, warn and return False
SkipUpdate ==
    /\ out' = out \o UpdateHeader \o NotARepoLines
    /\ updRet' = "False"
    /\ pc' = "install"

\* update_from_repo, lines 30-48 and 70-74: git rev-parse --git-dir
RepoCheck ==
    /\ pc = "update"
    /\ \/ \E rc \in ReturnCodes :
            /\ calls' = Append(calls, Call("rev-parse", rc, "none"))
            /\ IF rc # 0
               THEN SkipUpdate
               ELSE /\ out' = out \o UpdateHeader
                    /\ updRet' = updRet
                    /\ pc' = "pull"
            /\ UNCHANGED <<exc, excFrom>>
       \/ /\ calls' = Append(calls, Call("rev-parse", -1, "FileNotFoundError"))
          /\ out' = out \o UpdateHeader \o GitMissingLines
          /\ updRet' = "False"
          /\ pc' = "install"
          /\ UNCHANGED <<exc, excFrom>>
       \/ \E e \in LaunchErrors \ {"FileNotFoundError"} :
            /\ calls' = Append(calls, Call("rev-parse", -1, e))
            /\ Raise(e, "update_from_repo", UpdateHeader)
            /\ updRet' = updRet
    /\ UNCHANGED <<src, dst, parentWritable, run, update, idx, success_count,
                   exitcode, result, dst0, prev>>

\* what a successful git pull can do to the checked-out command files
PullEffects(s) == {s} \cup {[s EXCEPT ![f] = v] : f \in Manifest, v \in PulledVals}

PullingLine == <<"Pulling latest changes...">>

\* update_from_repo, lines 51-58 and 70-74: git pull
Pull ==
    /\ pc = "pull"
    /\ \/ \E rc \in ReturnCodes, so \in Texts, se \in Texts :
            /\ calls' = Append(calls, Call("pull", rc, "none"))
            /\ result' = [returncode |-> rc, stdout |-> so, stderr |-> se]
            /\ src' \in (IF rc = 0 THEN PullEffects(src) ELSE {src})
            /\ out' = Append(out, PullingLine)
            /\ pc' = "pulled"
            /\ UNCHANGED <<exc, excFrom, updRet>>
       \/ /\ calls' = Append(calls, Call("pull", -1, "FileNotFoundError"))
          /\ out' = Append(out, PullingLine) \o GitMissingLines
          /\ updRet' = "False"
          /\ pc' = "install"
          /\ UNCHANGED <<exc, excFrom, result, src>>
       \/ \E e \in LaunchErrors \ {"FileNotFoundError"} :
            /\ calls' = Append(calls, Call("pull", -1, e))
            /\ Raise(e, "update_from_repo", <<PullingLine>>)
            /\ UNCHANGED <<updRet, result, src>>
    /\ UNCHANGED <<dst, parentWritable, run, update, idx, success_count,
                   exitcode, dst0, prev>>

\* update_from_repo, lines 60-68: report the result of git pull and return
PullReport ==
    /\ pc = "pulled"
    /\ out' = out \o PullLines(result)
    /\ updRet' = PullReturn(result)
    /\ result' = NoResult
    /\ pc' = "install"
    /\ UNCHANGED <<src, dst, parentWritable, run, update, idx, success_count,
                   exc, excFrom, exitcode, calls, dst0, prev>>

CreatingLine == <<"Creating", commands_dst, "...">>
CopyingLine == <<"Copying command files...">>

\* install_files, lines 78-95: the destination directory is created if absent
InstallBegin ==
    /\ pc = "install"
    /\ IF dst = NoDir /\ ~parentWritable
       THEN /\ Raise("PermissionError", "install_files", <<CreatingLine>>)
            /\ UNCHANGED <<dst, idx, success_count>>
       ELSE /\ dst' = (IF dst = NoDir THEN mkdir(dst) ELSE dst)
            /\ out' = out \o (IF dst = NoDir THEN <<CreatingLine>> ELSE << >>)
                          \o <<CopyingLine>>
            /\ success_count' = 0
            /\ idx' = 1
            /\ pc' = "copy"
            /\ UNCHANGED <<exc, excFrom>>
    /\ UNCHANGED <<src, parentWritable, run, update, exitcode, result, calls,
                   updRet, dst0, prev>>

\* mutant: only files that were not there before are counted
Counted_new(n, d, f) == IF d[f] = NoFile THEN n + 1 ELSE n

\* the success counter after file f was copied into directory d
Counted(n, d, f) == n + 1

\* mutant: the loop ends at the first missing file
WarnMissing_break(f) ==
    /\ out' = Append(out, NotFoundLine(f))
    /\ idx' = Len(files_to_copy) + 1
    /\ UNCHANGED <<dst, success_count, pc, exc, excFrom>>

\* mutant: a destination file whose source is gone is removed
WarnMissing_prune(f) ==
    /\ out' = Append(out, NotFoundLine(f))
    /\ idx' = idx + 1
    /\ dst' = [dst EXCEPT ![f] = NoFile]
    /\ UNCHANGED <<success_count, pc, exc, excFrom>>

\* install_files, lines 104-105: the source file is missing, warn and go on
WarnMissing(f) ==
    /\ out' = Append(out, NotFoundLine(f))
    /\ idx' = idx + 1
    /\ UNCHANGED <<dst, success_count, pc, exc, excFrom>>

\* install_files, lines 96-105: one iteration of the copy loop
CopyFile ==
    /\ pc = "copy"
    /\ idx <= Len(files_to_copy)
    /\ LET f == files_to_copy[idx] IN
       IF exists(src, f)
       THEN \/ /\ dst' = copy2(src, dst, f)
               /\ out' = Append(out, InstalledLine(f))
               /\ success_count' = Counted(success_count, dst, f)
               /\ idx' = idx + 1
               /\ UNCHANGED <<pc, exc, excFrom>>
            \/ /\ Raise("OSError", "install_files", << >>)
               /\ UNCHANGED <<dst, success_count, idx>>
       ELSE WarnMissing(f)
    /\ UNCHANGED <<src, parentWritable, run, update, exitcode, result, calls,
                   updRet, dst0, prev>>

\* install_files, lines 107-136, then main returns and the process exits 0
Summary ==
    /\ pc = "copy"
    /\ idx > Len(files_to_copy)
    /\ out' = out \o SummaryLines(success_count)
    /\ exitcode' = 0
    /\ pc' = "done"
    /\ UNCHANGED <<src, dst, parentWritable, run, update, idx, success_count,
                   exc, excFrom, result, calls, updRet, dst0, prev>>

\* mutant: the exception is printed but sys.exit(1) is forgotten
TopLevelExcept_exit0 ==
    /\ pc = "raised"
    /\ out' = Append(out, ErrorLine(exc))
    /\ exitcode' = 0
    /\ pc' = "failed"
    /\ UNCHANGED <<src, dst, parentWritable, run, update, idx, success_count,
                   exc, excFrom, result, calls, updRet, dst0, prev>>

\* lines 174-179: the top level catches the exception, prints it, exits 1
TopLevelExcept ==
    /\ pc = "raised"
    /\ out' = Append(out, ErrorLine(exc))
    /\ exitcode' = 1
    /\ pc' = "failed"
    /\ UNCHANGED <<src, dst, parentWritable, run, update, idx, success_count,
                   exc, excFrom, result, calls, updRet, dst0, prev>>

Next ==
    \/ \E u \in BOOLEAN : Main(u)
    \/ RepoCheck
    \/ Pull
    \/ PullReport
    \/ InstallBegin
    \/ CopyFile
    \/ Summary
    \/ TopLevelExcept

Spec == Init /\ [][Next]_vars

TypeOK ==
    /\ pc \in {"idle", "update", "pull", "pulled", "install", "copy", "raised", "done", "failed"}
    /\ run \in 0..MaxRuns
    /\ exitcode \in {-1, 0, 1}
    /\ success_count \in 0..Len(files_to_copy)

\* ------------------------------------------------------------- reading a run
Has(line) == \E k \in 1..Len(out) : out[k] = line

IsPerFile(l) == Len(l) >= 2 /\ l[1] \in {"Installed", "Warning:"} /\ l[2] \in Manifest

\* the per-file lines printed so far, in the order printed
PerFile == SelectSeq(out, IsPerFile)

Missing == {k \in 1..Len(files_to_copy) : ~exists(src, files_to_copy[k])}

FileLine(f) == IF exists(src, f) THEN InstalledLine(f) ELSE NotFoundLine(f)

InInstall == pc \in {"install", "copy"}

NotARepo ==
    /\ calls # << >>
    /\ calls[1].raised = "none"
    /\ calls[1].returncode # 0

MkdirFailed == excFrom = "install_files" /\ exc = "PermissionError"

\* the lines the step being taken prints
Printed == SubSeq(out', Len(out) + 1, Len(out'))

InSeq(line, lines) == \E k \in 1..Len(lines) : lines[k] = line

\* ------------------------------------------------------------- claims

\* C1: when the destination directory did not exist at the start and the run
\* completed without exception, the directory exists and holds exactly the
\* manifest files that exist in the source directory.
C1_FreshDestination ==
    (pc = "done" /\ dst0 = NoDir) =>
        /\ dst # NoDir
        /\ Files(dst) = Manifest \cap Files(src)

C1_Witness ==
    /\ pc = "done" /\ dst0 = NoDir
    /\ Files(dst) # {}
    /\ Files(dst) # Manifest
    /\ OtherFile \in Files(src)

\* C2: whatever subset of the manifest is missing from the source, every
\* manifest entry is processed in listed order (a missing one does not stop the
\* loop), the reported success count is the manifest size minus the number of
\* missing files, and the process exits 0; a non-zero exit only follows an
\* exception.
C2_MissingFilesNotFatal ==
    /\ pc = "done" =>
        /\ Len(PerFile) = Len(files_to_copy)
        /\ \A k \in 1..Len(files_to_copy) : PerFile[k] = FileLine(files_to_copy[k])
        /\ success_count = Len(files_to_copy) - Cardinality(Missing)
        /\ out[Len(out)] = CountLine(Len(files_to_copy) - Cardinality(Missing))
        /\ exitcode = 0
    /\ pc = "copy" =>
        /\ Len(PerFile) = idx - 1
        /\ \A k \in 1..(idx - 1) : PerFile[k] = FileLine(files_to_copy[k])
    /\ exitcode = 1 => exc # "none"

C2_Witness ==
    /\ pc = "done"
    /\ ~exists(src, files_to_copy[1])
    /\ exists(src, files_to_copy[3])
    /\ success_count = Len(files_to_copy) - Cardinality(Missing)
    /\ exitcode = 0

\* C3: no failure of the repository check or of the pull escapes
\* update_from_repo, and main always goes on to install_files.
C3_UpdaterNeverRaises ==
    /\ excFrom # "update_from_repo"
    /\ (update /\ pc \in {"done", "failed"}) => Has(CopyingLine) \/ MkdirFailed

\* C4: a second run in a row on an unchanged source directory leaves the
\* destination as the first run left it and reports the same success count.
C4_Idempotent ==
    (pc = "done" /\ prev.done /\ prev.src = src) =>
        /\ dst = prev.dst
        /\ success_count = prev.count
        /\ out[Len(out)] = CountLine(prev.count)

C4_Witness ==
    /\ pc = "done" /\ prev.done /\ prev.src = src
    /\ success_count > 0
    /\ dst = prev.dst

\* C5: the pull is invoked only after a repository check that exited zero; the
\* updater runs only when the flag was passed and before any installer step;
\* after a repository check that exited non-zero the pull is never invoked, the
\* warning names the clone URL, the updater returns False, and the run goes on
\* to the installation and exits 0 unless the installation itself raises.
C5_NoPullOutsideCheckout ==
    /\ \A k \in 1..Len(calls) :
          calls[k].cmd = "pull" => (k = 2 /\ calls[1] = Call("rev-parse", 0, "none"))
    /\ (calls # << >> \/ updRet # "none" \/ pc \in {"update", "pull", "pulled"}) => update
    /\ pc \in {"update", "pull", "pulled"} =>
          (dst = dst0 /\ idx = 0 /\ ~Has(CopyingLine) /\ ~Has(CreatingLine))
    /\ NotARepo =>
          /\ Len(calls) = 1
          /\ Has(<<CloneURL>>)
          /\ updRet = "False"
          /\ pc \in {"install", "copy", "done", "raised", "failed"}
          /\ pc \in {"raised", "failed"} => excFrom = "install_files"
          /\ pc = "done" => (exitcode = 0 /\ Has(CopyingLine))

C5_Witness ==
    /\ NotARepo
    /\ pc = "done"
    /\ exitcode = 0
    /\ success_count > 0

\* C6: when the destination directory cannot be created the exception leaves
\* install_files: nothing is copied, neither the completion banner nor the
\* success count is printed, the top level prints the exception and the
\* process exits 1.
C6_MkdirFailureFatal ==
    /\ (dst0 = NoDir /\ ~parentWritable) =>
          /\ pc \notin {"copy", "done"}
          /\ excFrom = "install_files" => MkdirFailed
    /\ MkdirFailed =>
          /\ dst = NoDir
          /\ PerFile = << >>
          /\ ~Has(<<"Installation complete!">>)
          /\ \A n \in 0..Len(files_to_copy) : ~Has(CountLine(n))
          /\ pc \in {"raised", "failed"}
          /\ exitcode # 0
          /\ pc = "failed" => (exitcode = 1 /\ out[Len(out)] = ErrorLine("PermissionError"))

C6_Witness ==
    /\ pc = "failed"
    /\ MkdirFailed
    /\ dst0 = NoDir /\ ~parentWritable
    /\ exitcode = 1

\* C7 as stated: the report after a pull is exactly one of three outcomes:
\* exit code zero with the marker anywhere in stdout or stderr gives 'already
\* current' and not 'updated'; exit code zero without the marker gives
\* 'updated'; a non-zero exit code gives 'failed' with the captured error text.
C7_ThreeExclusiveOutcomes ==
    [][ pc = "pulled" =>
          LET marked == Contains("Already up to date", result.stdout \o result.stderr)
              current == InSeq(UpToDateLine, Printed)
              updated == InSeq(UpdatedLine, Printed)
              failed  == InSeq(FailedLine(result.stderr), Printed)
          IN  /\ (result.returncode = 0 /\ marked) => (current /\ ~updated /\ ~failed)
              /\ (result.returncode = 0 /\ ~marked) => (updated /\ ~current /\ ~failed)
              /\ result.returncode # 0 => (failed /\ ~current /\ ~updated) ]_vars

\* C7 as amended: exit code zero always reports 'updated' and returns True, and
\* reports 'already current' as well exactly when the marker occurs in stdout
\* (stderr is not inspected); a non-zero exit code reports only 'failed' with
\* the captured stderr text and returns False.
C7_ReportFollowsExitCodeAndStdout ==
    [][ pc = "pulled" =>
          LET marked == Contains("Already up to date", result.stdout)
              current == InSeq(UpToDateLine, Printed)
              updated == InSeq(UpdatedLine, Printed)
              failed  == InSeq(FailedLine(result.stderr), Printed)
          IN  /\ result.returncode = 0 =>
                    (updated /\ ~failed /\ (current <=> marked) /\ updRet' = "True")
              /\ result.returncode # 0 =>
                    (failed /\ ~current /\ ~updated /\ updRet' = "False") ]_vars

C7_Witness ==
    /\ updRet = "True"
    /\ Has(UpdatedLine)
    /\ Has(UpToDateLine)
    /\ calls[Len(calls)] = Call("pull", 0, "none")

C9_CopiesAreUpToDate ==
    pc = "done" =>
        \A f \in Manifest : exists(src, f) => (exists(dst, f) /\ dst[f] = src[f])

C9_Witness ==
    /\ pc = "done"
    /\ dst0 # NoDir
    /\ \E f \in Manifest :
          /\ exists(src, f) /\ exists(dst0, f)
          /\ dst0[f].content = src[f].content
          /\ dst0[f].meta # src[f].meta
          /\ dst[f] = src[f]

\* C10: the tool deletes nothing; install_files leaves the source directory as
\* it is and changes a destination file only when its name is a manifest entry
\* present in the source (it then holds the source file); every other
\* destination file, a stale manifest file whose source is missing included,
\* keeps its content.
C10_Frame ==
    [][ /\ InInstall => src' = src
        /\ dst # NoDir => dst' # NoDir
        /\ (dst = NoDir /\ dst' # NoDir) => dst' = EmptyDir
        /\ (dst # NoDir /\ dst' # NoDir) =>
              \A n \in Names :
                 dst'[n] # dst[n] =>
                    (InInstall /\ n \in Manifest /\ exists(src, n) /\ dst'[n] = src[n]) ]_vars

C10_Witness ==
    /\ pc = "done"
    /\ exists(dst, OtherFile) /\ dst[OtherFile] = dst0[OtherFile]
    /\ \E f \in Manifest :
          /\ ~exists(src, f)
          /\ exists(dst, f) /\ dst[f] = dst0[f]
          /\ Has(NotFoundLine(f))
    /\ \E g \in Manifest : exists(src, g) /\ dst0[g] # src[g]
====
